---- MODULE Spec2Model ----
(***************************************************************************)
(* SSVC converter: the decision engine (ssvc_converter.py) and the batch   *)
(* pipeline that drives it (main.py).                                      *)
(*                                                                         *)
(* A Python str is modelled as a sequence of one-character strings, so     *)
(* that lower(), capitalize() and split() are computed character by        *)
(* character.  A Python value is a record [kind, chars]: kind "str" for    *)
(* text, any other kind for a non-textual object (float NaN, None, int).   *)
(***************************************************************************)
EXTENDS Integers, Sequences, FiniteSets, TLC

\* ---------------------------------------------------------------- bounds
MaxLen == 1
MaxRows == 2

\* ------------------------------------------------------ characters, text
UpperChars ==
  << "A","B","C","D","E","F","G","H","I","J","K","L","M","N","O","P","Q","R",
     "S","T","U","V","W","X","Y","Z","É" >>
LowerChars ==
  << "a","b","c","d","e","f","g","h","i","j","k","l","m","n","o","p","q","r",
     "s","t","u","v","w","x","y","z","é" >>

IndexIn(c, table) == CHOOSE i \in 1..Len(table) : table[i] = c
IsUpperChar(c) == \E i \in 1..Len(UpperChars) : UpperChars[i] = c
IsLowerChar(c) == \E i \in 1..Len(LowerChars) : LowerChars[i] = c

lower_char(c) == IF IsUpperChar(c) THEN LowerChars[IndexIn(c, UpperChars)] ELSE c
upper_char(c) == IF IsLowerChar(c) THEN UpperChars[IndexIn(c, LowerChars)] ELSE c

\* str.lower()
lower(s) == [k \in 1..Len(s) |-> lower_char(s[k])]
\* str.upper()
upper(s) == [k \in 1..Len(s) |-> upper_char(s[k])]
\* str.capitalize(): first character upper-cased, the rest lower-cased
capitalize(s) ==
  [k \in 1..Len(s) |-> IF k = 1 THEN upper_char(s[k]) ELSE lower_char(s[k])]

\* str.split(sep) for a one-character separator: always at least one piece
RECURSIVE SplitFrom(_, _, _, _)
SplitFrom(s, sep, k, cur) ==
  IF k > Len(s) THEN << cur >>
  ELSE IF s[k] = sep THEN << cur >> \o SplitFrom(s, sep, k + 1, << >>)
  ELSE SplitFrom(s, sep, k + 1, Append(cur, s[k]))
split(s, sep) == SplitFrom(s, sep, 1, << >>)

\* ---------------------------------------------------------- Python values
Str(s) == [kind |-> "str", chars |-> s]
NaN == [kind |-> "float", chars |-> << >>]
PyNone == [kind |-> "NoneType", chars |-> << >>]
PyInt == [kind |-> "int", chars |-> << >>]
NonText == {NaN, PyNone, PyInt}
\* isinstance(v, str)
isinstance_str(v) == v.kind = "str"

\* outcome of a call: a returned value or a raised exception
Ok(v) == [ok |-> TRUE, value |-> v]
Raise(e, a) == [ok |-> FALSE, exc |-> e, arg |-> a]

\* ------------------------------------------------------------------ enums
ExploitationLevel == {"Active", "PoC", "None"}
Automatable == {"Yes", "No"}
TechnicalImpact == {"Total", "Partial"}
MissionImpact == {"High", "Medium", "Low"}
SsvcAction == {"Act", "Attend", "Track*", "Track"}

\* the text of each MissionImpact member's value, for the lookup by value
MissionImpactValue ==
  [m \in MissionImpact |->
     CASE m = "High" -> << "H","i","g","h" >>
       [] m = "Medium" -> << "M","e","d","i","u","m" >>
       [] m = "Low" -> << "L","o","w" >>]

\* ------------------------------------------------- get_exploitation_level
active_states ==
  { << "a","c","t","i","v","e" >>,
    << "a","t","t","a","c","k","e","d" >>,
    << "h","i","g","h" >>,
    << "c","r","i","t","i","c","a","l" >>,
    << "f","u","n","c","t","i","o","n","a","l" >> }
poc_states ==
  { << "p","o","c" >>,
    << "p","r","o","o","f","-","o","f","-","c","o","n","c","e","p","t" >>,
    << "a","v","a","i","l","a","b","l","e" >> }

\* variant: the comparison done on the text as given, without lower()
get_exploitation_level_case_sensitive(exploit_maturity) ==
  IF ~isinstance_str(exploit_maturity)
  THEN Raise("TypeError", "exploit_maturity")
  ELSE LET em == exploit_maturity.chars IN
       IF em \in active_states THEN Ok("Active")
       ELSE IF em \in poc_states THEN Ok("PoC")
       ELSE Ok("None")

get_exploitation_level(exploit_maturity) ==
  IF ~isinstance_str(exploit_maturity)
  THEN Raise("TypeError", "exploit_maturity")
  ELSE LET em == lower(exploit_maturity.chars) IN
       IF em \in active_states THEN Ok("Active")
       ELSE IF em \in poc_states THEN Ok("PoC")
       ELSE Ok("None")

\* --------------------------------------------------------- is_automatable
\* variant: user_interaction compared without lower()
is_automatable_ui_case_sensitive(attack_complexity, privileges_required, user_interaction) ==
  IF ~isinstance_str(attack_complexity)
  THEN Raise("TypeError", "attack_complexity")
  ELSE IF ~isinstance_str(privileges_required)
  THEN Raise("TypeError", "privileges_required")
  ELSE IF ~isinstance_str(user_interaction)
  THEN Raise("TypeError", "user_interaction")
  ELSE LET is_auto == /\ lower(attack_complexity.chars) = << "l" >>
                      /\ lower(privileges_required.chars) = << "n" >>
                      /\ user_interaction.chars = << "n" >>
       IN  Ok(IF is_auto THEN "Yes" ELSE "No")

is_automatable(attack_complexity, privileges_required, user_interaction) ==
  IF ~isinstance_str(attack_complexity)
  THEN Raise("TypeError", "attack_complexity")
  ELSE IF ~isinstance_str(privileges_required)
  THEN Raise("TypeError", "privileges_required")
  ELSE IF ~isinstance_str(user_interaction)
  THEN Raise("TypeError", "user_interaction")
  ELSE LET is_auto == /\ lower(attack_complexity.chars) = << "l" >>
                      /\ lower(privileges_required.chars) = << "n" >>
                      /\ lower(user_interaction.chars) = << "n" >>
       IN  Ok(IF is_auto THEN "Yes" ELSE "No")

\* --------------------------------------------------- get_technical_impact
valid_values == { << "h" >>, << "l" >>, << "n" >> }

\* variant: Total as soon as one of the three impacts is high
get_technical_impact_any_high(confidentiality, integrity, availability) ==
  IF ~isinstance_str(confidentiality)
  THEN Raise("TypeError", "confidentiality")
  ELSE IF ~isinstance_str(integrity)
  THEN Raise("TypeError", "integrity")
  ELSE IF ~isinstance_str(availability)
  THEN Raise("TypeError", "availability")
  ELSE IF lower(confidentiality.chars) \notin valid_values
  THEN Raise("ValueError", "c")
  ELSE IF lower(integrity.chars) \notin valid_values
  THEN Raise("ValueError", "i")
  ELSE IF lower(availability.chars) \notin valid_values
  THEN Raise("ValueError", "a")
  ELSE LET is_total == \/ lower(confidentiality.chars) = << "h" >>
                       \/ lower(integrity.chars) = << "h" >>
                       \/ lower(availability.chars) = << "h" >>
       IN  Ok(IF is_total THEN "Total" ELSE "Partial")

\* variant: each argument checked for type and then for value, in turn
get_technical_impact_interleaved(confidentiality, integrity, availability) ==
  IF ~isinstance_str(confidentiality)
  THEN Raise("TypeError", "confidentiality")
  ELSE IF lower(confidentiality.chars) \notin valid_values
  THEN Raise("ValueError", "c")
  ELSE IF ~isinstance_str(integrity)
  THEN Raise("TypeError", "integrity")
  ELSE IF lower(integrity.chars) \notin valid_values
  THEN Raise("ValueError", "i")
  ELSE IF ~isinstance_str(availability)
  THEN Raise("TypeError", "availability")
  ELSE IF lower(availability.chars) \notin valid_values
  THEN Raise("ValueError", "a")
  ELSE LET is_total == /\ lower(confidentiality.chars) = << "h" >>
                       /\ lower(integrity.chars) = << "h" >>
                       /\ lower(availability.chars) = << "h" >>
       IN  Ok(IF is_total THEN "Total" ELSE "Partial")

get_technical_impact(confidentiality, integrity, availability) ==
  IF ~isinstance_str(confidentiality)
  THEN Raise("TypeError", "confidentiality")
  ELSE IF ~isinstance_str(integrity)
  THEN Raise("TypeError", "integrity")
  ELSE IF ~isinstance_str(availability)
  THEN Raise("TypeError", "availability")
  ELSE IF lower(confidentiality.chars) \notin valid_values
  THEN Raise("ValueError", "c")
  ELSE IF lower(integrity.chars) \notin valid_values
  THEN Raise("ValueError", "i")
  ELSE IF lower(availability.chars) \notin valid_values
  THEN Raise("ValueError", "a")
  ELSE LET is_total == /\ lower(confidentiality.chars) = << "h" >>
                       /\ lower(integrity.chars) = << "h" >>
                       /\ lower(availability.chars) = << "h" >>
       IN  Ok(IF is_total THEN "Total" ELSE "Partial")

\* ------------------------------------------------------- get_final_action
\* variant: the None / No / Total branch answers as the None / Yes / Total one
get_final_action_none_no_attend(exploitation, automatable, tech_impact, mission_impact) ==
  IF exploitation = "Active"
  THEN IF automatable = "Yes" THEN "Act"
       ELSE IF tech_impact = "Partial" THEN "Attend"
       ELSE IF mission_impact \in {"High", "Medium"} THEN "Act" ELSE "Attend"
  ELSE IF exploitation = "PoC"
  THEN IF automatable = "Yes"
       THEN IF tech_impact = "Partial" THEN "Track*"
            ELSE IF mission_impact \in {"High", "Medium"} THEN "Attend"
            ELSE "Track*"
       ELSE IF tech_impact = "Partial" THEN "Track*"
            ELSE IF mission_impact = "High" THEN "Attend" ELSE "Track*"
  ELSE IF automatable = "Yes"
       THEN IF tech_impact = "Partial" THEN "Track"
            ELSE IF mission_impact = "High" THEN "Attend" ELSE "Track"
       ELSE IF tech_impact = "Partial" THEN "Track"
            ELSE IF mission_impact = "High" THEN "Attend" ELSE "Track"

\* variant: the PoC / No / Total branch tests the wrong mission tier
get_final_action_poc_no_low(exploitation, automatable, tech_impact, mission_impact) ==
  IF exploitation = "Active"
  THEN IF automatable = "Yes" THEN "Act"
       ELSE IF tech_impact = "Partial" THEN "Attend"
       ELSE IF mission_impact \in {"High", "Medium"} THEN "Act" ELSE "Attend"
  ELSE IF exploitation = "PoC"
  THEN IF automatable = "Yes"
       THEN IF tech_impact = "Partial" THEN "Track*"
            ELSE IF mission_impact \in {"High", "Medium"} THEN "Attend"
            ELSE "Track*"
       ELSE IF tech_impact = "Partial" THEN "Track*"
            ELSE IF mission_impact = "Low" THEN "Attend" ELSE "Track*"
  ELSE IF automatable = "Yes"
       THEN IF tech_impact = "Partial" THEN "Track"
            ELSE IF mission_impact = "High" THEN "Attend" ELSE "Track"
       ELSE IF tech_impact = "Partial" THEN "Track"
            ELSE IF mission_impact = "High" THEN "Track*" ELSE "Track"

get_final_action(exploitation, automatable, tech_impact, mission_impact) ==
  IF exploitation = "Active"
  THEN IF automatable = "Yes" THEN "Act"
       ELSE IF tech_impact = "Partial" THEN "Attend"
       ELSE IF mission_impact \in {"High", "Medium"} THEN "Act" ELSE "Attend"
  ELSE IF exploitation = "PoC"
  THEN IF automatable = "Yes"
       THEN IF tech_impact = "Partial" THEN "Track*"
            ELSE IF mission_impact \in {"High", "Medium"} THEN "Attend"
            ELSE "Track*"
       ELSE IF tech_impact = "Partial" THEN "Track*"
            ELSE IF mission_impact = "High" THEN "Attend" ELSE "Track*"
  ELSE IF automatable = "Yes"
       THEN IF tech_impact = "Partial" THEN "Track"
            ELSE IF mission_impact = "High" THEN "Attend" ELSE "Track"
       ELSE IF tech_impact = "Partial" THEN "Track"
            ELSE IF mission_impact = "High" THEN "Track*" ELSE "Track"

\* ------------------------------------------------- get_ssvc_decision_path
\* MissionImpact(system_context.capitalize()): the attribute lookup fails on
\* an object that is not a str, the enum lookup fails on an unknown value
mission_impact_of(system_context) ==
  IF ~isinstance_str(system_context)
  THEN Raise("AttributeError", "capitalize")
  ELSE LET cap == capitalize(system_context.chars) IN
       IF \E m \in MissionImpact : MissionImpactValue[m] = cap
       THEN Ok(CHOOSE m \in MissionImpact : MissionImpactValue[m] = cap)
       ELSE Raise("ValueError", "MissionImpact")

\* variant: the mission impact is normalised before the three classifiers run
get_ssvc_decision_path_mission_first(ac, pr, ui, c, i, a, exploit_maturity, system_context) ==
  LET exploitation == get_exploitation_level(exploit_maturity)
      automatable == is_automatable(ac, pr, ui)
      tech_impact == get_technical_impact(c, i, a)
      mission_impact == mission_impact_of(system_context)
  IN  IF ~mission_impact.ok THEN mission_impact
      ELSE IF ~exploitation.ok THEN exploitation
      ELSE IF ~automatable.ok THEN automatable
      ELSE IF ~tech_impact.ok THEN tech_impact
      ELSE Ok([path |-> [Exploitation |-> exploitation.value,
                         Automatable |-> automatable.value,
                         TechnicalImpact |-> tech_impact.value,
                         Mission |-> mission_impact.value],
               action |-> get_final_action(exploitation.value, automatable.value,
                                           tech_impact.value, mission_impact.value)])

get_ssvc_decision_path(ac, pr, ui, c, i, a, exploit_maturity, system_context) ==
  LET exploitation == get_exploitation_level(exploit_maturity)
      automatable == is_automatable(ac, pr, ui)
      tech_impact == get_technical_impact(c, i, a)
      mission_impact == mission_impact_of(system_context)
  IN  IF ~exploitation.ok THEN exploitation
      ELSE IF ~automatable.ok THEN automatable
      ELSE IF ~tech_impact.ok THEN tech_impact
      ELSE IF ~mission_impact.ok THEN mission_impact
      ELSE Ok([path |-> [Exploitation |-> exploitation.value,
                         Automatable |-> automatable.value,
                         TechnicalImpact |-> tech_impact.value,
                         Mission |-> mission_impact.value],
               action |-> get_final_action(exploitation.value, automatable.value,
                                           tech_impact.value, mission_impact.value)])

\* ================================================================ main.py
\* text literals of main.py
W_active == << "a","c","t","i","v","e" >>
W_poc == << "p","o","c" >>
W_none == << "n","o","n","e" >>
W_high == << "h","i","g","h" >>
W_medium == << "m","e","d","i","u","m" >>
W_internet == << "i","n","t","e","r","n","e","t" >>
W_existant == << "e","x","i","s","t","a","n","t" >>
W_proof_of_concept ==
  << "p","r","o","o","f"," ","o","f"," ","c","o","n","c","e","p","t" >>
W_non_prouve == << "n","o","n"," ","p","r","o","u","v","é" >>

exploit_mapping ==
  [k \in {W_internet, W_existant, W_proof_of_concept, W_non_prouve} |->
     CASE k = W_internet -> W_active
       [] k = W_existant -> W_active
       [] k = W_proof_of_concept -> W_poc
       [] k = W_non_prouve -> W_none]

context_mapping ==
  [k \in { << "X" >>, << "X","X" >>, << "X","X","X" >>, << "X","X","X","X" >> } |->
     IF k = << "X" >> THEN W_medium ELSE W_high]

\* dataframe[col].str.lower().map(mapping): a cell that is not text stays
\* NaN, a lower-cased text that is not a key of the mapping becomes NaN
str_lower_map(cell, mapping) ==
  IF isinstance_str(cell) /\ lower(cell.chars) \in DOMAIN mapping
  THEN Str(mapping[lower(cell.chars)])
  ELSE NaN

\* the .str accessor exists only on a column that holds text (object dtype);
\* read_csv gives a column without any text cell a numeric dtype
has_str_accessor(df, col) == \E k \in 1..Len(df) : isinstance_str(df[k][col])

\* str(vector_string)
py_str(cell) == IF isinstance_str(cell) THEN cell.chars ELSE << "n","a","n" >>

\* parse_cvss_vector: the dict {key.lower(): value.lower()} of the items
\* "key:value" separated by "/"; {} when an item does not unpack in two
parse_cvss_vector(vector_string) ==
  LET items == split(py_str(vector_string), "/")
      parts == [n \in 1..Len(items) |-> split(items[n], ":")]
      keys == {lower(parts[n][1]) : n \in 1..Len(items)}
      last(key) == CHOOSE n \in 1..Len(items) :
                     /\ lower(parts[n][1]) = key
                     /\ \A m \in (n + 1)..Len(items) : lower(parts[m][1]) # key
  IN  IF \E n \in 1..Len(items) : Len(parts[n]) # 2
      THEN [key \in {} |-> << >>]
      ELSE [key \in keys |-> lower(parts[last(key)][2])]

\* columns of cvss_metrics_df: the union of the keys of the parsed dicts
metric_columns(dv) == UNION {DOMAIN dv[k].metrics : k \in 1..Len(dv)}

\* row.get(col): None for a column that does not exist, NaN for a cell the
\* row's dict did not fill
row_get(row, cols, col) ==
  IF col \notin cols THEN PyNone
  ELSE IF col \in DOMAIN row.metrics THEN Str(row.metrics[col])
  ELSE NaN

\* pd.isna
isna(v) == v = NaN \/ v = PyNone

M_ac == << "a","c" >>
M_pr == << "p","r" >>
M_ui == << "u","i" >>
M_c == << "c" >>
M_i == << "i" >>
M_a == << "a" >>

\* body of the try block for one row: the decision or the exception raised
evaluate_row(row, cols) ==
  IF isna(row_get(row, cols, M_ac))
  THEN Raise("ValueError", "Données CVSS manquantes ou mal formatées")
  ELSE IF isna(row.exploit_maturity)
  THEN Raise("ValueError", "Nature Exploit non reconnue")
  ELSE IF isna(row.system_context)
  THEN Raise("ValueError", "Criticité non reconnue")
  ELSE IF M_pr \notin cols THEN Raise("KeyError", "pr")
  ELSE IF M_ui \notin cols THEN Raise("KeyError", "ui")
  ELSE IF M_c \notin cols THEN Raise("KeyError", "c")
  ELSE IF M_i \notin cols THEN Raise("KeyError", "i")
  ELSE IF M_a \notin cols THEN Raise("KeyError", "a")
  ELSE get_ssvc_decision_path(
         row_get(row, cols, M_ac), row_get(row, cols, M_pr),
         row_get(row, cols, M_ui), row_get(row, cols, M_c),
         row_get(row, cols, M_i), row_get(row, cols, M_a),
         row.exploit_maturity, row.system_context)

\* except (ValueError, TypeError, KeyError)
caught(exc) == exc \in {"ValueError", "TypeError", "KeyError"}

flat_results(decision) ==
  [SSVC_Exploitation |-> decision.path.Exploitation,
   SSVC_Automatable |-> decision.path.Automatable,
   SSVC_Technical_Impact |-> decision.path.TechnicalImpact,
   SSVC_Action |-> << decision.action >>]

error_row(e) ==
  [SSVC_Exploitation |-> "Erreur",
   SSVC_Automatable |-> "Erreur",
   SSVC_Technical_Impact |-> "Erreur",
   SSVC_Action |-> << "Erreur de traitement", e.exc, e.arg >>]

\* ================================================================= inputs
\* CSV cells of the column 'Nature Exploit'
NatureCells ==
  { Str(<< "I","n","t","e","r","n","e","t" >>),
    Str(<< "P","r","o","o","f"," ","o","f"," ","C","o","n","c","e","p","t" >>),
    Str(<< "N","o","n"," ","p","r","o","u","v","É" >>),
    Str(<< "i","n","c","o","n","n","u" >>),
    NaN }
\* CSV cells of the column 'Criticité'
CriticiteCells ==
  { Str(<< "X" >>), Str(<< "X","X" >>), Str(<< "X","X","X" >>),
    Str(<< "X","X","X","X" >>), Str(<< "x","x" >>), Str(<< "Z" >>), NaN }

Item(k, v) == k \o << ":" >> \o v
RECURSIVE Join(_)
Join(items) ==
  IF Len(items) = 0 THEN << >>
  ELSE IF Len(items) = 1 THEN items[1]
  ELSE items[1] \o << "/" >> \o Join(Tail(items))

V_head == << Item(<< "C","V","S","S" >>, << "3",".","1" >>) >>
Vector(ac, pr, ui, c, i, a) ==
  Join(V_head \o << Item(<< "A","C" >>, ac), Item(<< "P","R" >>, pr),
                    Item(<< "U","I" >>, ui),
                    Item(<< "C" >>, c), Item(<< "I" >>, i), Item(<< "A" >>, a) >>)

V_total == Vector(<< "L" >>, << "N" >>, << "N" >>, << "H" >>, << "H" >>, << "H" >>)
V_partial == Vector(<< "H" >>, << "L" >>, << "R" >>, << "H" >>, << "L" >>, << "N" >>)
V_bad_metric == Vector(<< "L" >>, << "N" >>, << "N" >>, << "X" >>, << "H" >>, << "H" >>)
V_no_pr == Join(V_head \o << Item(<< "A","C" >>, << "L" >>), Item(<< "U","I" >>, << "N" >>),
                            Item(<< "C" >>, << "H" >>), Item(<< "I" >>, << "H" >>),
                            Item(<< "A" >>, << "H" >>) >>)
V_unsplittable == Join(V_head \o << << "A","C" >> >>)

\* CSV cells of the column 'CVSS 3 Vecteur'
VectorCells ==
  { Str(V_total), Str(V_partial), Str(V_bad_metric), Str(V_no_pr),
    Str(V_unsplittable), NaN }

RawRow(n, c, v) == [Nature_Exploit |-> n, Criticite |-> c, CVSS_3_Vecteur |-> v]

\* the records a CSV file may hold
RawRows ==
  {RawRow(n, Str(<< "X","X" >>), Str(V_total)) : n \in NatureCells}
  \cup {RawRow(Str(W_existant), c, Str(V_partial)) : c \in CriticiteCells}
  \cup {RawRow(Str(W_existant), Str(<< "X" >>), v) : v \in VectorCells}
  \cup {RawRow(NaN, NaN, NaN)}

Batches == UNION {[1..n -> RawRows] : n \in 0..MaxRows}

\* texts of at most MaxLen characters over an alphabet
Texts(alphabet) == UNION {[1..n -> alphabet] : n \in 0..MaxLen}

\* the variants in letter case of a word
CaseVariants(w) ==
  {lower(w), upper(w), capitalize(w)}
  \cup {[k \in 1..Len(w) |-> IF k = n THEN upper_char(w[k]) ELSE lower_char(w[k])] :
          n \in 1..Len(w)}

\* arguments of is_automatable
AutomatableArgs ==
  {Str(t) : t \in Texts({"l","L","n","N","h"})}
  \cup {Str(<< "l","o","w" >>)}
  \cup NonText

\* arguments of get_technical_impact
ImpactArgs ==
  {Str(t) : t \in Texts({"h","H","l","N","x"})}
  \cup {Str(<< "H","H" >>), Str(<< "h","i","g","h" >>)}
  \cup NonText

ExploitArgs ==
  {Str(t) : t \in UNION {CaseVariants(w) : w \in active_states \cup poc_states}}
  \cup {Str(t) : t \in CaseVariants(W_none) \cup CaseVariants(W_proof_of_concept)}
  \cup {Str(<< "u","n","k","n","o","w","n","-","t","o","k","e","n" >>),
        Str(<< "a","c","t","i","v" >>), Str(<< "p","o","c","s" >>),
        Str(<< " ","a","c","t","i","v","e" >>)}
  \cup {Str(t) : t \in Texts({"p","o","c","C"})}
  \cup NonText

\* arguments of get_ssvc_decision_path
PathAc == {Str(<< "L" >>), Str(<< "h" >>), NaN}
PathPr == {Str(<< "n" >>), Str(<< "L" >>), PyNone}
PathUi == {Str(<< "N" >>), Str(<< "r" >>), NaN}
PathImpact == {Str(<< "H" >>), Str(<< "l" >>), Str(<< "x" >>), NaN}
PathExploit ==
  {Str(upper(W_active)), Str(W_poc), Str(W_none), NaN}
PathContext ==
  {Str(W_high), Str(<< "h","I","G","H" >>), Str(capitalize(W_medium)),
   Str(<< "L","O","W" >>), Str(<< "u","r","g","e","n","t" >>), Str(<< >>),
   NaN, PyNone}

\* ================================================================== state
VARIABLES
  pc,            \* main(): "start", "loop", "done", "exit", "crashed";
                 \* a direct call of the engine: "call", "return"
  dataframe,     \* the rows read from the CSV file
  derived,       \* per row: exploit_maturity, system_context, CVSS metrics
  index,         \* the row the loop is at
  results_list,  \* one entry per processed row
  call,          \* the last call of a method of SsvcConverter: [fn, args]
  ret            \* its outcome

vars == << pc, dataframe, derived, index, results_list, call, ret >>

NoCall == [fn |-> "", args |-> << >>]
NoRet == Raise("", "")

\* ------------------------------------------------------------ main(): batch
Init ==
  /\ pc = "start"
  /\ dataframe \in Batches
  /\ derived = << >>
  /\ index = 0
  /\ results_list = << >>
  /\ call = NoCall
  /\ ret = NoRet

\* if dataframe.empty: return
NoData ==
  /\ pc = "start"
  /\ Len(dataframe) = 0
  /\ pc' = "exit"
  /\ UNCHANGED << dataframe, derived, index, results_list, call, ret >>

\* step 1, data preparation: the two mapped columns and the CVSS metrics
PrepareColumns ==
  /\ pc = "start"
  /\ Len(dataframe) > 0
  /\ has_str_accessor(dataframe, "Nature_Exploit")
  /\ has_str_accessor(dataframe, "Criticite")
  /\ derived' =
       [k \in 1..Len(dataframe) |->
          [exploit_maturity |-> str_lower_map(dataframe[k].Nature_Exploit, exploit_mapping),
           system_context |-> str_lower_map(dataframe[k].Criticite, context_mapping),
           metrics |-> parse_cvss_vector(dataframe[k].CVSS_3_Vecteur)]]
  /\ index' = 1
  /\ pc' = "loop"
  /\ UNCHANGED << dataframe, results_list, call, ret >>

\* step 1 on a column without text: .str raises AttributeError, uncaught
PrepareColumnsFails ==
  /\ pc = "start"
  /\ Len(dataframe) > 0
  /\ ~ (has_str_accessor(dataframe, "Nature_Exploit")
        /\ has_str_accessor(dataframe, "Criticite"))
  /\ pc' = "crashed"
  /\ UNCHANGED << dataframe, derived, index, results_list, call, ret >>

\* step 2, one iteration of the loop over dataframe.iterrows()
ProcessRow ==
  /\ pc = "loop"
  /\ index <= Len(dataframe)
  /\ LET decision == evaluate_row(derived[index], metric_columns(derived)) IN
       IF decision.ok
       THEN /\ results_list' = Append(results_list, flat_results(decision.value))
            /\ index' = index + 1
            /\ pc' = pc
       ELSE IF caught(decision.exc)
       THEN /\ results_list' = Append(results_list, error_row(decision))
            /\ index' = index + 1
            /\ pc' = pc
       ELSE /\ pc' = "crashed"
            /\ UNCHANGED << results_list, index >>
  /\ UNCHANGED << dataframe, derived, call, ret >>

\* step 3: results_df = pd.DataFrame(results_list, index=dataframe.index)
AddResultColumns ==
  /\ pc = "loop"
  /\ index > Len(dataframe)
  /\ pc' = "done"
  /\ UNCHANGED << dataframe, derived, index, results_list, call, ret >>

Next ==
  \/ NoData
  \/ PrepareColumns
  \/ PrepareColumnsFails
  \/ ProcessRow
  \/ AddResultColumns

Spec == Init /\ [][Next]_vars

\* ------------------------------------------- SsvcConverter called directly
\* a client of the class makes one call, with arguments of its choice
EngineInit ==
  /\ pc = "call"
  /\ dataframe = << >>
  /\ derived = << >>
  /\ index = 0
  /\ results_list = << >>
  /\ ret = NoRet
  /\ \/ \E em \in ExploitArgs :
          call = [fn |-> "get_exploitation_level", args |-> << em >>]
     \/ \E t \in AutomatableArgs \X AutomatableArgs \X AutomatableArgs :
          call = [fn |-> "is_automatable", args |-> t]
     \/ \E t \in ImpactArgs \X ImpactArgs \X ImpactArgs :
          call = [fn |-> "get_technical_impact", args |-> t]
     \/ \E t \in ExploitationLevel \X Automatable \X TechnicalImpact \X MissionImpact :
          call = [fn |-> "get_final_action", args |-> t]
     \/ \E t \in PathAc \X PathPr \X PathUi \X PathImpact \X PathImpact
                 \X PathImpact \X PathExploit \X PathContext :
          call = [fn |-> "get_ssvc_decision_path", args |-> t]

Return(outcome) ==
  /\ ret' = outcome
  /\ pc' = "return"
  /\ UNCHANGED << dataframe, derived, index, results_list, call >>

CallExploitationLevel ==
  /\ pc = "call"
  /\ call.fn = "get_exploitation_level"
  /\ Return(get_exploitation_level(call.args[1]))

CallIsAutomatable ==
  /\ pc = "call"
  /\ call.fn = "is_automatable"
  /\ Return(is_automatable(call.args[1], call.args[2], call.args[3]))

CallTechnicalImpact ==
  /\ pc = "call"
  /\ call.fn = "get_technical_impact"
  /\ Return(get_technical_impact(call.args[1], call.args[2], call.args[3]))

CallFinalAction ==
  /\ pc = "call"
  /\ call.fn = "get_final_action"
  /\ Return(Ok(get_final_action(call.args[1], call.args[2], call.args[3],
                                call.args[4])))

CallDecisionPath ==
  /\ pc = "call"
  /\ call.fn = "get_ssvc_decision_path"
  /\ Return(get_ssvc_decision_path(call.args[1], call.args[2], call.args[3],
                                   call.args[4], call.args[5], call.args[6],
                                   call.args[7], call.args[8]))

EngineNext ==
  \/ CallExploitationLevel
  \/ CallIsAutomatable
  \/ CallTechnicalImpact
  \/ CallFinalAction
  \/ CallDecisionPath

SpecEngine == EngineInit /\ [][EngineNext]_vars

\* ================================================================= claims
\* vocabulary of the claims, stated without the code's conversions

\* two characters are the same letter, whatever their case
SameLetter(x, y) ==
  \/ x = y
  \/ \E n \in 1..Len(UpperChars) :
       {x, y} = {UpperChars[n], LowerChars[n]}
\* text s is word w, compared case-insensitively
SameText(s, w) ==
  /\ Len(s) = Len(w)
  /\ \A k \in 1..Len(s) : SameLetter(s[k], w[k])

Returned(fn) == pc = "return" /\ call.fn = fn

\* the tokens of the exploitation tiers (section 4.1)
ActiveTokens ==
  { << "a","c","t","i","v","e" >>, << "a","t","t","a","c","k","e","d" >>,
    << "h","i","g","h" >>, << "c","r","i","t","i","c","a","l" >>,
    << "f","u","n","c","t","i","o","n","a","l" >> }
PocTokens ==
  { << "p","o","c" >>,
    << "p","r","o","o","f","-","o","f","-","c","o","n","c","e","p","t" >>,
    << "a","v","a","i","l","a","b","l","e" >> }

\* an impact metric in {H, L, N}, case-insensitively
InImpactDomain(v) ==
  /\ isinstance_str(v)
  /\ v.chars \in { << "H" >>, << "h" >>, << "L" >>, << "l" >>, << "N" >>, << "n" >> }
IsHigh(v) == v.chars \in { << "H" >>, << "h" >> }

AllMission == {"High", "Medium", "Low"}
AllImpact == {"Total", "Partial"}
\* the table of section 4.5: exploitation, automatable, technical impacts,
\* mission impacts, action
DecisionTable ==
  { << "Active", "Yes", AllImpact,   AllMission,        "Act" >>,
    << "Active", "No",  {"Partial"}, AllMission,        "Attend" >>,
    << "Active", "No",  {"Total"},   {"High", "Medium"}, "Act" >>,
    << "Active", "No",  {"Total"},   {"Low"},           "Attend" >>,
    << "PoC",    "Yes", {"Partial"}, AllMission,        "Track*" >>,
    << "PoC",    "Yes", {"Total"},   {"High", "Medium"}, "Attend" >>,
    << "PoC",    "Yes", {"Total"},   {"Low"},           "Track*" >>,
    << "PoC",    "No",  {"Partial"}, AllMission,        "Track*" >>,
    << "PoC",    "No",  {"Total"},   {"High"},          "Attend" >>,
    << "PoC",    "No",  {"Total"},   {"Medium", "Low"}, "Track*" >>,
    << "None",   "Yes", {"Partial"}, AllMission,        "Track" >>,
    << "None",   "Yes", {"Total"},   {"High"},          "Attend" >>,
    << "None",   "Yes", {"Total"},   {"Medium", "Low"}, "Track" >>,
    << "None",   "No",  {"Partial"}, AllMission,        "Track" >>,
    << "None",   "No",  {"Total"},   {"High"},          "Track*" >>,
    << "None",   "No",  {"Total"},   {"Medium", "Low"}, "Track" >> }
RowCovers(r, t) ==
  r[1] = t[1] /\ r[2] = t[2] /\ t[3] \in r[3] /\ t[4] \in r[4]

\* C1: for each of the 36 combinations of the four classifications,
\* get_final_action returns exactly the action that the table of section 4.5
\* gives for that cell (one action per cell).
C1_FinalActionIsTheTable ==
  Returned("get_final_action") =>
    /\ \E r \in DecisionTable : RowCovers(r, call.args)
    /\ \A r \in DecisionTable : RowCovers(r, call.args) => ret = Ok(r[5])

C1_Witness ==
  /\ Returned("get_final_action")
  /\ call.args = << "None", "No", "Total", "High" >>
  /\ ret = Ok("Track*")

\* C3: for textual arguments, is_automatable returns Yes exactly when the
\* attack complexity is "L", the privileges required "N" and the user
\* interaction "N", each case-insensitively, and No otherwise.
C3_AutomatableIsStrictConjunction ==
  (/\ Returned("is_automatable")
   /\ \A k \in 1..3 : isinstance_str(call.args[k]))
  => ret = Ok(IF /\ call.args[1].chars \in { << "L" >>, << "l" >> }
                 /\ call.args[2].chars \in { << "N" >>, << "n" >> }
                 /\ call.args[3].chars \in { << "N" >>, << "n" >> }
              THEN "Yes" ELSE "No")

C3_Witness ==
  /\ Returned("is_automatable")
  /\ call.args = << Str(<< "l" >>), Str(<< "n" >>), Str(<< "N" >>) >>
  /\ ret = Ok("Yes")

\* C4: for confidentiality, integrity and availability in {H, L, N}
\* (case-insensitively), get_technical_impact returns Total exactly when all
\* three are H, and Partial otherwise.
C4_TotalIffAllHigh ==
  (/\ Returned("get_technical_impact")
   /\ \A k \in 1..3 : InImpactDomain(call.args[k]))
  => ret = Ok(IF \A k \in 1..3 : IsHigh(call.args[k]) THEN "Total" ELSE "Partial")

C4_Witness ==
  /\ Returned("get_technical_impact")
  /\ call.args = << Str(<< "H" >>), Str(<< "h" >>), Str(<< "H" >>) >>
  /\ ret = Ok("Total")

\* names under which get_technical_impact reports its arguments
ImpactParam == << "confidentiality", "integrity", "availability" >>
ImpactMetric == << "c", "i", "a" >>
FirstOf(S) == CHOOSE k \in S : \A j \in S : k <= j

\* C5 as stated: whenever an argument of get_technical_impact is not textual
\* or not in {H, L, N}, the call fails with InvalidMetricValue (the ValueError
\* of the metric check) naming an offending field.
C5_Original_AlwaysInvalidMetricValue ==
  (/\ Returned("get_technical_impact")
   /\ \E k \in 1..3 : ~InImpactDomain(call.args[k]))
  => /\ ~ret.ok
     /\ ret.exc = "ValueError"
     /\ \E k \in 1..3 : ~InImpactDomain(call.args[k]) /\ ret.arg = ImpactMetric[k]

\* C5 amended: whenever an argument of get_technical_impact is not textual or
\* not in {H, L, N}, the call fails and returns no classification: with
\* InvalidInput (TypeError) naming the first non-textual argument when some
\* argument is not textual, otherwise with InvalidMetricValue (ValueError)
\* naming the first field outside the domain.
C5_InvalidImpactArgumentFails ==
  (/\ Returned("get_technical_impact")
   /\ \E k \in 1..3 : ~InImpactDomain(call.args[k]))
  => LET nontext == {k \in 1..3 : ~isinstance_str(call.args[k])}
         outside == {k \in 1..3 : ~InImpactDomain(call.args[k])}
     IN  IF nontext # {}
         THEN ret = Raise("TypeError", ImpactParam[FirstOf(nontext)])
         ELSE ret = Raise("ValueError", ImpactMetric[FirstOf(outside)])

C5_Witness ==
  /\ Returned("get_technical_impact")
  /\ call.args = << Str(<< "x" >>), NaN, Str(<< "H" >>) >>
  /\ ret = Raise("TypeError", "integrity")

\* C6: get_exploitation_level never fails on a text: it returns Active when
\* the text is, case-insensitively, one of the active tokens, PoC when it is
\* one of the PoC tokens, None for any other text; it fails with InvalidInput
\* (TypeError) exactly when the argument is not textual.
C6_ExploitationTiers ==
  Returned("get_exploitation_level") =>
    LET v == call.args[1] IN
    IF isinstance_str(v)
    THEN ret = Ok(IF \E w \in ActiveTokens : SameText(v.chars, w) THEN "Active"
                  ELSE IF \E w \in PocTokens : SameText(v.chars, w) THEN "PoC"
                  ELSE "None")
    ELSE ret = Raise("TypeError", "exploit_maturity")

C6_Witness ==
  /\ Returned("get_exploitation_level")
  /\ call.args = << Str(<< "A","C","T","I","V","E" >>) >>
  /\ ret = Ok("Active")

\* the seven arguments that precede the mission impact are all acceptable
ClassifiersAccept(args) ==
  /\ isinstance_str(args[7])
  /\ \A k \in 1..3 : isinstance_str(args[k])
  /\ \A k \in 4..6 : InImpactDomain(args[k])

MissionWords ==
  [m \in AllMission |->
     CASE m = "High" -> << "h","i","g","h" >>
       [] m = "Medium" -> << "m","e","d","i","u","m" >>
       [] m = "Low" -> << "l","o","w" >>]
\* the tier whose capitalised name is the capitalised raw value
NamesTier(v, m) == isinstance_str(v) /\ SameText(v.chars, MissionWords[m])

\* C7: the mission-impact normalisation capitalises the raw value and returns
\* High, Medium or Low when the capitalised text is one of those; for any
\* other value it fails with InvalidMissionImpact (the ValueError of the enum
\* lookup), never with another kind of failure.
C7_MissionImpactOrInvalidMissionImpact ==
  (Returned("get_ssvc_decision_path") /\ ClassifiersAccept(call.args))
  => LET raw == call.args[8] IN
     IF \E m \in AllMission : NamesTier(raw, m)
     THEN /\ ret.ok
          /\ NamesTier(raw, ret.value.path.Mission)
     ELSE ret = Raise("ValueError", "MissionImpact")

\* C8: get_ssvc_decision_path is all or nothing: when every sub-step accepts
\* its input the result holds the four classifications and the action that
\* get_final_action gives for exactly those four; otherwise there is no
\* result and the failure is, unmodified, that of the first failing sub-step
\* in the order exploitation, automatability, technical impact, mission.
C8_AllOrNothingFirstFailure ==
  Returned("get_ssvc_decision_path") =>
    LET args == call.args
        exploitOk == isinstance_str(args[7])
        autoOk == \A k \in 1..3 : isinstance_str(args[k])
        techOk == \A k \in 4..6 : InImpactDomain(args[k])
        missionOk == \E m \in AllMission : NamesTier(args[8], m)
    IN  IF ~exploitOk THEN ret = get_exploitation_level(args[7])
        ELSE IF ~autoOk THEN ret = is_automatable(args[1], args[2], args[3])
        ELSE IF ~techOk THEN ret = get_technical_impact(args[4], args[5], args[6])
        ELSE IF ~missionOk
             THEN ~ret.ok /\ ret.arg \in {"MissionImpact", "capitalize"}
        ELSE /\ ret.ok
             /\ Ok(ret.value.path.Exploitation) = get_exploitation_level(args[7])
             /\ Ok(ret.value.path.Automatable) = is_automatable(args[1], args[2], args[3])
             /\ Ok(ret.value.path.TechnicalImpact)
                  = get_technical_impact(args[4], args[5], args[6])
             /\ NamesTier(args[8], ret.value.path.Mission)
             /\ ret.value.action =
                  get_final_action(ret.value.path.Exploitation,
                                   ret.value.path.Automatable,
                                   ret.value.path.TechnicalImpact,
                                   ret.value.path.Mission)

C8_Witness ==
  /\ Returned("get_ssvc_decision_path")
  /\ call.args[4] = Str(<< "x" >>)
  /\ call.args[8] = Str(<< "u","r","g","e","n","t" >>)
  /\ ret = Raise("ValueError", "c")

\* urgency: Act > Attend > Track* > Track
Urgency ==
  [x \in SsvcAction |->
     CASE x = "Act" -> 4 [] x = "Attend" -> 3 [] x = "Track*" -> 2 [] x = "Track" -> 1]
ExploitationRank == [x \in ExploitationLevel |->
                       CASE x = "None" -> 1 [] x = "PoC" -> 2 [] x = "Active" -> 3]
AutomatableRank == [x \in Automatable |-> IF x = "Yes" THEN 2 ELSE 1]
ImpactRank == [x \in TechnicalImpact |-> IF x = "Total" THEN 2 ELSE 1]
MissionRank == [x \in MissionImpact |->
                  CASE x = "Low" -> 1 [] x = "Medium" -> 2 [] x = "High" -> 3]
\* t2 is t1 with exactly one input raised
RaisesOne(t1, t2) ==
  LET up == << ExploitationRank[t2[1]] - ExploitationRank[t1[1]],
               AutomatableRank[t2[2]] - AutomatableRank[t1[2]],
               ImpactRank[t2[3]] - ImpactRank[t1[3]],
               MissionRank[t2[4]] - MissionRank[t1[4]] >>
  IN  \E k \in 1..4 : up[k] > 0 /\ \A j \in (1..4) \ {k} : up[j] = 0

\* C10: get_final_action is monotone in each input: raising the exploitation
\* (None < PoC < Active), automatable (No < Yes), technical impact
\* (Partial < Total) or mission impact (Low < Medium < High), the three
\* others held fixed, never gives a less urgent action.
C10_FinalActionMonotone ==
  Returned("get_final_action") =>
    \A t2 \in ExploitationLevel \X Automatable \X TechnicalImpact \X MissionImpact :
      RaisesOne(call.args, t2)
        => Urgency[get_final_action(t2[1], t2[2], t2[3], t2[4])] >= Urgency[ret.value]

C10_Witness ==
  /\ Returned("get_final_action")
  /\ call.args = << "PoC", "No", "Total", "Medium" >>
  /\ ret = Ok("Track*")
  /\ get_final_action("PoC", "Yes", "Total", "Medium") = "Attend"
  /\ get_final_action("PoC", "No", "Total", "High") = "Attend"

\* --------------------------------------------------------- batch pipeline
IsErrorMarker(r) == r.SSVC_Exploitation = "Erreur"
IsDecisionPath(r) ==
  /\ r.SSVC_Exploitation \in ExploitationLevel
  /\ r.SSVC_Automatable \in Automatable
  /\ r.SSVC_Technical_Impact \in TechnicalImpact
  /\ \E x \in SsvcAction : r.SSVC_Action = << x >>

\* the labels of the two site-specific vocabularies
NatureLabels == {W_internet, W_existant, W_proof_of_concept, W_non_prouve}
CriticiteLabels ==
  { << "X" >>, << "X","X" >>, << "X","X","X" >>, << "X","X","X","X" >> }
RecognisedNature(rec) ==
  /\ isinstance_str(rec.Nature_Exploit)
  /\ \E w \in NatureLabels : SameText(rec.Nature_Exploit.chars, w)
KnownCriticite(rec) ==
  /\ isinstance_str(rec.Criticite)
  /\ rec.Criticite.chars \in CriticiteLabels
\* a vector that gives the six metrics, the three impacts within {H, L, N}
WellFormedVector(rec) == rec.CVSS_3_Vecteur \in {Str(V_total), Str(V_partial)}
WellFormed(rec) ==
  RecognisedNature(rec) /\ KnownCriticite(rec) /\ WellFormedVector(rec)

\* C2: the batch loop gives exactly one result per record, in record order;
\* a record that fails (in the upstream mapping or in the engine) gives an
\* error marker at its own position, the loop is never aborted, and every
\* well-formed record still gives its DecisionPath.
C2_OneResultPerRecord ==
  /\ pc = "crashed" => index = 0
  /\ pc = "done" =>
       /\ Len(results_list) = Len(dataframe)
       /\ \A k \in 1..Len(dataframe) :
            IF WellFormed(dataframe[k])
            THEN IsDecisionPath(results_list[k])
            ELSE IsErrorMarker(results_list[k])

\* C9: a record whose Criticité is a key of the criticality mapping reaches
\* the engine with the mapped mission impact ("X" as medium, the others as
\* high) and, its exploit nature recognised and its vector well-formed, gives
\* a DecisionPath, not an error marker.
C9_KnownCriticiteIsMapped ==
  \A k \in 1..Len(derived) :
    KnownCriticite(dataframe[k]) =>
      /\ derived[k].system_context =
           Str(IF dataframe[k].Criticite.chars = << "X" >> THEN W_medium ELSE W_high)
      /\ (k <= Len(results_list) /\ WellFormed(dataframe[k]))
           => IsDecisionPath(results_list[k])

====
